---- MODULE Spec2Model ----
(***************************************************************************)
(* Model of the lazy-loading pipeline: the dBlazy attribute helpers, the   *)
(* Bio observer engine, the BioMedia loader and the part of the            *)
(* Drupal.blazy orchestrator that reacts to load results.                  *)
(*                                                                         *)
(* The browser is single threaded.  Every action below is one task of the  *)
(* event loop (an IntersectionObserver callback, a timer, an image load    *)
(* event, a call made by a collaborator) or one promise reaction           *)
(* (microtask).  Tasks only run when no promise reaction is pending.       *)
(***************************************************************************)
EXTENDS Integers, Sequences, FiniteSets, TLC

\* Bounds of the model.
MaxProcessed == 3     \* calls of intersecting() on the page
MaxErrors == 2        \* sum of the error counters
MaxRevTick == 1
MaxTickDebt == 1
MaxTimers == 1
MaxProbes == 2
MaxLen == 5           \* tokens in the text of a data-* attribute

\* The page has two lazy elements and at most two loader instances.
Elems == {1, 2}
Insts == {1, 2}

VARIABLES
  dom,      \* the lazy elements of the page: tag, classes, attributes, <source> children
  probes,   \* probes[e][i]: detached Image probes of instance i for element e still loading
  micro,    \* the pending promise reaction of a settled probe, or NoMicro
  fin,      \* the bio.finally event the last step dispatched: element and outcome, or NoFin
  timers,   \* timers[e]: pending reevaluate() timeouts that will call Drupal.blazy.init.load(e)
  bio,      \* the Bio/BioMedia instances
  glob,     \* the private variables shared by all Bio instances
  blazy,    \* Drupal.blazy: init is the instance held by the orchestrator (0 is null),
            \* items the native opt-in elements, listening says onNative is bound;
            \* with it _isNativeExecuted and the number of blazy.native events
  pure      \* a call of a dBlazy utility: its arguments, its closure, what it returned

vars == <<dom, probes, micro, fin, timers, bio, glob, blazy, pure>>

----------------------------------------------------------------------------
\* DOM values.

NoAttr == "absent"
AttrNames == {"src", "srcset", "data-src", "data-srcset", "data-bio-hit", "loading"}
NoAttrs == [a \in AttrNames |-> NoAttr]

\* A <source> child carrying lazy attributes.
LazySource == [NoAttrs EXCEPT !["data-src"] = "S", !["data-srcset"] = "SS"]

\* The shapes of lazy elements a page starts with (all match the selector .b-lazy).
ImgShape(srcset) ==
  [tag |-> "img", inPicture |-> FALSE, classes |-> {"b-lazy"}, bgImage |-> NoAttr,
   attrs |-> [NoAttrs EXCEPT !["src"] = "P", !["data-src"] = "X", !["data-srcset"] = srcset],
   kids |-> <<>>]
BgShape ==
  [tag |-> "div", inPicture |-> FALSE, classes |-> {"b-lazy", "b-bg"}, bgImage |-> NoAttr,
   attrs |-> [NoAttrs EXCEPT !["data-src"] = "X"], kids |-> <<>>]
PictureShape ==
  [tag |-> "img", inPicture |-> TRUE, classes |-> {"b-lazy"}, bgImage |-> NoAttr,
   attrs |-> [NoAttrs EXCEPT !["src"] = "P", !["data-src"] = "X"],
   kids |-> <<LazySource, LazySource>>]
VideoShape ==
  [tag |-> "video", inPicture |-> FALSE, classes |-> {"b-lazy"}, bgImage |-> NoAttr,
   attrs |-> NoAttrs, kids |-> <<LazySource>>]
IframeShape(src) ==
  [tag |-> "iframe", inPicture |-> FALSE, classes |-> {"b-lazy"}, bgImage |-> NoAttr,
   attrs |-> [NoAttrs EXCEPT !["src"] = src, !["data-src"] = "X"], kids |-> <<>>]

\* An image that opts in to native lazy loading.
NativeShape == [ImgShape("XS") EXCEPT !.attrs["loading"] = "lazy"]

Shapes == {ImgShape("XS"), ImgShape(NoAttr), BgShape, PictureShape, VideoShape,
           IframeShape("P"), IframeShape(NoAttr)}

Page(a, b) == [e \in {1, 2} |-> IF e = 1 THEN a ELSE b]

\* An element that was loaded before (the selector of init() skips it).
Done(shape) == [shape EXCEPT !.classes = @ \cup {"b-loaded"},
                             !.attrs = [NoAttrs EXCEPT !["src"] = "X", !["data-bio-hit"] = "1"]]

Pages == {Page(ImgShape("XS"), BgShape), Page(ImgShape(NoAttr), PictureShape)}

NoMicro == [stage |-> "none", el |-> 0, inst |-> 0, status |-> 0,
            classed |-> FALSE, called |-> FALSE]
NoFin == [el |-> 0, status |-> 0]
NullElms == {0}        \* me.elms = null (0 is no element)
NullObserver == "null"
LiveObserver == "io"

\* Drupal.blazy before initBlazy, in a browser with or without native lazy
\* loading ('loading' in HTMLImageElement.prototype).
NoBlazy(nativeLazy) ==
  [init |-> 0, nativeLazy |-> nativeLazy, items |-> <<>>, listening |-> FALSE,
   isNativeExecuted |-> FALSE, natives |-> 0]

\* No dBlazy utility call is followed.
NoPure == [fn |-> "none"]

\* Status codes of Bio.prototype.
Ok == 1
Er == -1

----------------------------------------------------------------------------
\* dBlazy attribute helpers, on the attribute map of one element.

DataOf(attr) == IF attr = "src" THEN "data-src" ELSE "data-srcset"

setAttr(at, attr, remove) ==
  IF at[DataOf(attr)] # NoAttr
  THEN LET set == [at EXCEPT ![attr] = at[DataOf(attr)]]
       IN IF remove THEN [set EXCEPT ![DataOf(attr)] = NoAttr] ELSE set
  ELSE at

RECURSIVE setAttrs(_, _, _)
setAttrs(at, attrs, remove) ==
  IF attrs = <<>> THEN at
  ELSE setAttrs(setAttr(at, Head(attrs), remove), Tail(attrs), remove)

\* Mutant: only the first <source> child is handled.
setAttrsWithSourcesFirst(el, attr, remove) ==
  LET a == IF attr # "" THEN attr ELSE IF el.inPicture THEN "srcset" ELSE "src"
  IN [el EXCEPT !.kids = [k \in DOMAIN el.kids |->
                            IF k = 1 THEN setAttr(el.kids[k], a, remove) ELSE el.kids[k]]]

\* The <source> children of the picture parent, or of the element itself.
setAttrsWithSources(el, attr, remove) ==
  LET a == IF attr # "" THEN attr ELSE IF el.inPicture THEN "srcset" ELSE "src"
  IN [el EXCEPT !.kids = [k \in DOMAIN el.kids |-> setAttr(el.kids[k], a, remove)]]

\* Mutant: removes the attribute itself, not its data- counterpart.
RECURSIVE removeAttrsPlain(_, _)
removeAttrsPlain(at, attrs) ==
  IF attrs = <<>> THEN at
  ELSE removeAttrsPlain([at EXCEPT ![Head(attrs)] = NoAttr], Tail(attrs))

RECURSIVE removeAttrs(_, _)
removeAttrs(at, attrs) ==
  IF attrs = <<>> THEN at
  ELSE removeAttrs([at EXCEPT ![DataOf(Head(attrs))] = NoAttr], Tail(attrs))

bgSources == <<"src">>
imgSources == <<"srcset", "src">>

----------------------------------------------------------------------------
\* The handlers are functions on the whole program state s; s.thr is set when
\* a handler raised a TypeError (a call on the null observer), which aborts
\* the running task.

Cur == [dom |-> dom, probes |-> probes, micro |-> micro, fin |-> NoFin,
        timers |-> timers, bio |-> bio, glob |-> glob, blazy |-> blazy,
        thr |-> FALSE]

NoBio == [created |-> FALSE, disconnect |-> FALSE, orch |-> FALSE,
          count |-> 0, counted |-> -1, erCounted |-> 0, elms |-> NullElms,
          observer |-> NullObserver, targets |-> {}, oldTargets |-> {}]

isLoaded(s, e) == "b-loaded" \in s.dom[e].classes

\* An argument of load() is an element ([single |-> TRUE, els |-> <<e>>]) or
\* a collection of elements; only a single element that is not loaded is valid.
\* Mutant: a loaded element is valid too.
isValidAny(s, x) == x.single

isValid(s, x) == x.single /\ ~isLoaded(s, x.els[1])

Single(e) == [single |-> TRUE, els |-> <<e>>]

\* Drupal.blazy.reevaluate: an element with the error class loses it and is
\* loaded again through Drupal.blazy.init 10ms later.
reevaluate(s, e) ==
  IF s.blazy.init # 0 /\ "b-error" \in s.dom[e].classes
  THEN [s EXCEPT !.dom[e].classes = @ \ {"b-error"}, !.timers[e] = @ + 1]
  ELSE s

\* The end of Drupal.blazy.clearing inside the listener of blazy.native: the
\* listener was bound once and is removed before it runs, so the event
\* dispatched here reaches no listener.
nativeOnceUnbound(s) ==
  IF s.blazy.isNativeExecuted THEN s
  ELSE [s EXCEPT !.blazy.natives = @ + 1, !.blazy.isNativeExecuted = TRUE]

\* el.classList.add(successClass) and me.clearing(el) of doNative.
doNativeLoaded(s, e) ==
  nativeOnceUnbound(reevaluate([s EXCEPT !.dom[e].classes = @ \cup {"b-loaded"}], e))

\* doNative of doNativeLazy: the lazy attributes of a native opt-in element
\* are swapped, the element is marked loaded and cleared.
doNative(s, e) ==
  doNativeLoaded(
    [s EXCEPT !.dom[e] =
       setAttrsWithSources([@ EXCEPT !.attrs = setAttrs(@, <<"srcset", "src">>, TRUE)],
                           "", TRUE)],
    e)

\* onNative, the listener doNativeLazy binds once to blazy.native.
RECURSIVE onNative(_, _)
onNative(s, items) ==
  IF items = <<>> THEN s
  ELSE onNative(doNative(s, Head(items)), Tail(items))

\* The blazy.native event is dispatched: a listener that is still bound is
\* removed (once: true) and then runs.
triggerNative(s) ==
  IF s.blazy.listening
  THEN onNative([s EXCEPT !.blazy.natives = @ + 1, !.blazy.listening = FALSE],
                s.blazy.items)
  ELSE [s EXCEPT !.blazy.natives = @ + 1]

\* The end of Drupal.blazy.clearing: blazy.native is dispatched, then
\* _isNativeExecuted is set.
nativeOnce(s) ==
  IF s.blazy.isNativeExecuted THEN s
  ELSE [triggerNative(s) EXCEPT !.blazy.isNativeExecuted = TRUE]

\* Drupal.blazy.clearing, the success and error callback of the orchestrator.
clearing(s, e) == nativeOnce(reevaluate(s, e))

\* The callback of the element whose promise chain is running has returned.
called(s, e) ==
  IF s.micro.el = e THEN [s EXCEPT !.micro.called = TRUE] ELSE s

callback(s, i, e) ==
  called(IF s.bio[i].orch THEN clearing(s, e) ELSE s, e)

\* if (me.erCounted > 0) me.erCounted--, the end of success.
erCountedDown(s, i) ==
  IF s.bio[i].erCounted > 0
  THEN [s EXCEPT !.bio[i].erCounted = @ - 1]
  ELSE s

\* Mutant: success decrements the error counter without looking at it.
successUnchecked(s, i, e) ==
  [callback(s, i, e) EXCEPT !.bio[i].erCounted = @ - 1]

success(s, i, e) == erCountedDown(callback(s, i, e), i)

error(s, i, e) ==
  [callback(s, i, e) EXCEPT !.bio[i].erCounted = @ + 1]

loaded(s, i, e, status) ==
  LET s0 == [s EXCEPT !.dom[e].classes =
                        @ \cup {IF status = Ok THEN "b-loaded" ELSE "b-error"}]
      s1 == IF s0.micro.el = e THEN [s0 EXCEPT !.micro.classed = TRUE] ELSE s0
  IN IF status = Ok THEN success(s1, i, e) ELSE error(s1, i, e)

\* BioMedia.promise up to the creation of the probe, and the chain setImage
\* hangs on it: the probe is in flight until its load or error event.
setImage(s, i, e) ==
  [s EXCEPT !.probes[e][i] = @ + 1]

\* Mutant: the loading hook without its hit check.
lazyLoadAlways(s, i, e) ==
    LET el == s.dom[e]
        isImage == el.tag = "img"
        isBg == el.tag = "div" /\ "b-bg" \in el.classes
        isPicture == el.inPicture
        isVideo == el.tag = "video"
        s0 == s
        s1 ==
          IF isPicture
          THEN loaded([s0 EXCEPT !.dom[e] =
                         [setAttrsWithSources(el, "srcset", TRUE)
                            EXCEPT !.attrs = setAttr(el.attrs, "src", TRUE)]],
                      i, e, Ok)
          ELSE IF isVideo
          THEN loaded([s0 EXCEPT !.dom[e] = setAttrsWithSources(el, "src", TRUE)],
                      i, e, Ok)
          ELSE IF isImage \/ isBg
          THEN setImage(s0, i, e)
          ELSE IF el.attrs["data-src"] # NoAttr /\ el.attrs["src"] # NoAttr
          THEN loaded([s0 EXCEPT !.dom[e].attrs = setAttr(el.attrs, "src", TRUE)],
                      i, e, Ok)
          ELSE s0
    IN [s1 EXCEPT !.dom[e].attrs["data-bio-hit"] = "1"]

lazyLoad(s, i, e) ==
  IF s.dom[e].attrs["data-bio-hit"] # NoAttr THEN s
  ELSE
    LET el == s.dom[e]
        isImage == el.tag = "img"
        isBg == el.tag = "div" /\ "b-bg" \in el.classes
        isPicture == el.inPicture
        isVideo == el.tag = "video"
        s1 ==
          IF isPicture
          THEN loaded([s EXCEPT !.dom[e] =
                         [setAttrsWithSources(el, "srcset", TRUE)
                            EXCEPT !.attrs = setAttr(el.attrs, "src", TRUE)]],
                      i, e, Ok)
          ELSE IF isVideo
          THEN loaded([s EXCEPT !.dom[e] = setAttrsWithSources(el, "src", TRUE)],
                      i, e, Ok)
          ELSE IF isImage \/ isBg
          THEN setImage(s, i, e)
          ELSE IF el.attrs["data-src"] # NoAttr /\ el.attrs["src"] # NoAttr
          THEN loaded([s EXCEPT !.dom[e].attrs = setAttr(el.attrs, "src", TRUE)],
                      i, e, Ok)
          ELSE s
    IN [s1 EXCEPT !.dom[e].attrs["data-bio-hit"] = "1"]

\* Mutant: observes the element again instead of unobserving it.
intersectingObserve(s, i, e) ==
  LET s1 == lazyLoad(s, i, e)
      s2 == [s1 EXCEPT !.bio[i].counted = @ + 1]
  IN IF s2.glob.disconnected THEN s2
     ELSE IF s2.bio[i].observer = NullObserver THEN [s2 EXCEPT !.thr = TRUE]
     ELSE [s2 EXCEPT !.bio[i].targets = @ \cup {e}]

\* Mutant: unobserves without looking at _disconnected.
intersectingUnobserve(s, i, e) ==
  LET s1 == [lazyLoad(s, i, e) EXCEPT !.bio[i].counted = @ + 1]
  IN IF s1.bio[i].observer = NullObserver THEN [s1 EXCEPT !.thr = TRUE]
     ELSE [s1 EXCEPT !.bio[i].targets = @ \ {e}]

\* if (!_disconnected) me.observer.unobserve(el), the end of intersecting.
unobserve(s, i, e) ==
  IF s.glob.disconnected THEN s
  ELSE IF s.bio[i].observer = NullObserver THEN [s EXCEPT !.thr = TRUE]
  ELSE [s EXCEPT !.bio[i].targets = @ \ {e}]

intersecting(s, i, e) ==
  unobserve([lazyLoad(s, i, e) EXCEPT !.bio[i].counted = @ + 1], i, e)

\* Mutant: disconnects without looking at the error counter.
disconnectAnyway(s, i, force) ==
  LET me == s.bio[i]
  IN IF ((s.glob.bioTick = 0 \/ me.count = me.counted) /\ me.disconnect) \/ force
     THEN IF me.observer = NullObserver THEN [s EXCEPT !.thr = TRUE]
          ELSE [s EXCEPT !.bio[i].targets = {}, !.bio[i].count = 0,
                         !.bio[i].elms = NullElms, !.glob.disconnected = TRUE]
     ELSE s

\* Mutant: resets the processed counter together with the count.
disconnectReset(s, i, force) ==
  LET me == s.bio[i]
  IN IF me.erCounted > 0 /\ ~force THEN s
     ELSE IF ((s.glob.bioTick = 0 \/ me.count = me.counted) /\ me.disconnect) \/ force
     THEN IF me.observer = NullObserver THEN [s EXCEPT !.thr = TRUE]
          ELSE [s EXCEPT !.bio[i].targets = {}, !.bio[i].count = 0,
                         !.bio[i].counted = 0,
                         !.bio[i].elms = NullElms, !.glob.disconnected = TRUE]
     ELSE s

\* Mutant: disconnects whether or not auto-disconnect is configured.
disconnectUnconfigured(s, i, force) ==
  LET me == s.bio[i]
  IN IF me.erCounted > 0 /\ ~force THEN s
     ELSE IF (s.glob.bioTick = 0 \/ me.count = me.counted) \/ force
     THEN IF me.observer = NullObserver THEN [s EXCEPT !.thr = TRUE]
          ELSE [s EXCEPT !.bio[i].targets = {}, !.bio[i].count = 0,
                         !.bio[i].elms = NullElms, !.glob.disconnected = TRUE]
     ELSE s

disconnect(s, i, force) ==
  LET me == s.bio[i]
  IN IF me.erCounted > 0 /\ ~force THEN s
     ELSE IF ((s.glob.bioTick = 0 \/ me.count = me.counted) /\ me.disconnect) \/ force
     THEN IF me.observer = NullObserver THEN [s EXCEPT !.thr = TRUE]
          ELSE [s EXCEPT !.bio[i].targets = {}, !.bio[i].count = 0,
                         !.bio[i].elms = NullElms, !.glob.disconnected = TRUE]
     ELSE s

observe(s, i) ==
  LET me == s.bio[i]
      s1 == [s EXCEPT !.glob.bioTick = Cardinality(me.elms)]
      todo == {e \in me.elms : ~isLoaded(s, e)}
  IN IF todo = {} THEN s1
     ELSE IF me.observer = NullObserver THEN [s1 EXCEPT !.thr = TRUE]
     ELSE [s1 EXCEPT !.bio[i].targets = @ \cup todo]

\* An observer the instance no longer refers to keeps its targets and its
\* callback: it is never unobserved or disconnected again.
orphan(s, i) ==
  [s EXCEPT !.bio[i].oldTargets = @ \cup s.bio[i].targets,
            !.bio[i].targets = {}]

init(s, i) ==
  LET els == {e \in Elems : ~isLoaded(s, e)}
      s1 == [orphan(s, i) EXCEPT !.bio[i].elms = els,
                                 !.bio[i].count = Cardinality(els),
                                 !.bio[i].observer = LiveObserver]
  IN IF ~s1.glob.observed
     THEN [observe(s1, i) EXCEPT !.glob.observed = TRUE]
     ELSE s1

Bio(s, i, opts) ==
  LET s1 == [s EXCEPT !.bio[i] = [NoBio EXCEPT !.created = TRUE,
                                               !.disconnect = opts.disconnect,
                                               !.orch = opts.orch],
                      !.glob.disconnected = FALSE,
                      !.glob.observed = FALSE]
  IN init(s1, i)

reinit(s, i) ==
  init([s EXCEPT !.glob.disconnected = FALSE, !.glob.observed = FALSE], i)

destroy(s, i, force) ==
  LET s1 == disconnect(s, i, force)
  IN IF s1.thr THEN s1
     ELSE [orphan(s1, i) EXCEPT !.bio[i].observer = NullObserver]

revalidate(s, i, force) ==
  LET me == s.bio[i]
  IN IF (force \/ me.count # me.counted) /\ s.glob.revTick < me.counted
     THEN LET s1 == observe([s EXCEPT !.glob.disconnected = FALSE,
                                      !.bio[i].elms = Elems], i)
          IN IF s1.thr THEN s1 ELSE [s1 EXCEPT !.glob.revTick = @ + 1]
     ELSE s

RECURSIVE loadEach(_, _, _)
loadEach(s, i, q) ==
  IF q = <<>> \/ s.thr THEN s
  ELSE loadEach(IF isValid(s, Single(Head(q))) THEN intersecting(s, i, Head(q)) ELSE s,
                i, Tail(q))

\* if (!_disconnected) me.disconnect(), the end of load.
loadDisconnect(s, i, force) ==
  IF s.thr \/ s.glob.disconnected THEN s ELSE disconnect(s, i, force)

\* Mutant: load() ends with a forced disconnect.
loadForced(s, i, elms) ==
  loadDisconnect(IF isValid(s, elms) THEN intersecting(s, i, elms.els[1])
                 ELSE IF elms.single THEN s
                 ELSE loadEach(s, i, elms.els),
                 i, TRUE)

\* A loaded single element has no length: forEach iterates over nothing.
load(s, i, elms) ==
  loadDisconnect(IF isValid(s, elms) THEN intersecting(s, i, elms.els[1])
                 ELSE IF elms.single THEN s
                 ELSE loadEach(s, i, elms.els),
                 i, FALSE)

\* _bioTick--, after an entry of the batch was handled.
bioTickDown(s) ==
  IF s.thr THEN s ELSE [s EXCEPT !.glob.bioTick = @ - 1]

RECURSIVE observeEach(_, _, _)
observeEach(s, i, q) ==
  IF q = <<>> \/ s.thr THEN s
  ELSE observeEach(bioTickDown(IF ~isLoaded(s, Head(q))
                               THEN intersecting(s, i, Head(q)) ELSE s),
                   i, Tail(q))

\* me.disconnect(), the end of observing.
observingDisconnect(s, i) ==
  IF s.thr THEN s ELSE disconnect(s, i, FALSE)

\* entries: the intersecting entries of the batch, in delivery order.
observing(s, i, entries) ==
  IF s.glob.disconnected THEN s
  ELSE observingDisconnect(observeEach(s, i, entries), i)

----------------------------------------------------------------------------
\* The probe's load/error event and the promise reactions of setImage.

isBgEl(el) == el.tag = "div" /\ "b-bg" \in el.classes

setBg(el) ==
  IF el.attrs["data-src"] # NoAttr
  THEN [el EXCEPT !.bgImage = el.attrs["data-src"], !.attrs["src"] = NoAttr]
  ELSE el

applyAttrs(el) ==
  IF isBgEl(el) THEN setBg(el)
  ELSE [el EXCEPT !.attrs = setAttrs(el.attrs, imgSources, FALSE)]

\* img.onload / img.onerror: apply the attributes, settle the promise.
onSettle(s, i, e, ok) ==
  [s EXCEPT !.probes[e][i] = @ - 1,
            !.dom[e] = applyAttrs(@),
            !.micro = [NoMicro EXCEPT !.stage = IF ok THEN "then" ELSE "catch",
                                      !.status = IF ok THEN Ok ELSE Er,
                                      !.el = e, !.inst = i]]

\* removeAttrs of the fulfilment handler, after me.loaded.
thenRemoveAttrs(s, e) ==
  [s EXCEPT !.dom[e].attrs =
              removeAttrs(@, IF isBgEl(s.dom[e]) THEN bgSources ELSE imgSources),
            !.micro.stage = "finally"]

setImageThen(s) ==
  thenRemoveAttrs(loaded(s, s.micro.inst, s.micro.el, s.micro.status), s.micro.el)

\* Mutant: the rejection handler ends the chain, no completion event follows.
setImageCatchLast(s) ==
  LET e == s.micro.el
      s1 == loaded(s, s.micro.inst, e, s.micro.status)
  IN [s1 EXCEPT !.dom[e].attrs["data-bio-hit"] = NoAttr,
                !.micro = NoMicro]

setImageCatch(s) ==
  LET e == s.micro.el
      s1 == loaded(s, s.micro.inst, e, s.micro.status)
  IN [s1 EXCEPT !.dom[e].attrs["data-bio-hit"] = NoAttr,
                !.micro.stage = "finally"]

\* Dispatches bio.finally on the element.
setImageFinally(s) ==
  [s EXCEPT !.fin = [el |-> s.micro.el, status |-> s.micro.status], !.micro = NoMicro]

----------------------------------------------------------------------------
\* Initial state: the page is parsed, no instance exists yet.

Init ==
  /\ dom \in Pages
  /\ probes = [e \in Elems |-> [i \in Insts |-> 0]]
  /\ micro = NoMicro
  /\ fin = NoFin
  /\ timers = [e \in Elems |-> 0]
  /\ bio = [i \in Insts |-> NoBio]
  /\ glob = [bioTick |-> 0, revTick |-> 0, disconnected |-> FALSE, observed |-> FALSE]
  /\ blazy = NoBlazy(FALSE)
  /\ pure = NoPure

\* The counters stay within the bounds of the model.
RECURSIVE Sum(_, _)
Sum(f, S) == IF S = {} THEN 0
             ELSE LET x == CHOOSE x \in S : TRUE IN f[x] + Sum(f, S \ {x})

Within(r) ==
  /\ Sum([i \in Insts |-> r.bio[i].counted + 1], Insts) <= MaxProcessed
  /\ Sum([i \in Insts |-> r.bio[i].erCounted], Insts) <= MaxErrors
  /\ r.glob.revTick <= MaxRevTick
  /\ r.glob.bioTick >= 0 - MaxTickDebt
  /\ \A e \in Elems : /\ r.timers[e] <= MaxTimers
                      /\ \A i \in Insts : r.probes[e][i] <= MaxProbes

\* The task ends in the state t its handler returned.
Commit(r) ==
  \E t \in {r} :
    /\ Within(t)
    /\ dom' = t.dom
    /\ probes' = t.probes
    /\ micro' = t.micro
    /\ fin' = t.fin
    /\ timers' = t.timers
    /\ bio' = t.bio
    /\ glob' = t.glob
    /\ blazy' = t.blazy
    /\ pure' = pure

Idle == micro = NoMicro

\* The orders in which the elements of S can be listed.
Orders(S) == {q \in [1..Cardinality(S) -> S] : \A a, b \in DOMAIN q : a # b => q[a] # q[b]}

LoadArgs == {Single(e) : e \in Elems} \cup
            UNION {{[single |-> FALSE, els |-> q] : q \in Orders(S)} : S \in SUBSET Elems}

----------------------------------------------------------------------------
\* Tasks.

\* A collaborator constructs a loader without callbacks.
NewBioMedia(i, d) ==
  /\ Idle /\ ~bio[i].created
  /\ Commit(Bio(Cur, i, [disconnect |-> d, orch |-> FALSE]))

\* The elements matching .b-lazy[loading]:not(.b-loaded), in document order.
nativeItems(s) ==
  LET native(e) == s.dom[e].attrs["loading"] # NoAttr /\ ~isLoaded(s, e)
  IN SelectSeq(<<1, 2>>, native)

\* initBlazy: the orchestrator constructs its instance with clearing as the
\* success and error callback; afterInit runs checkRatio once, which
\* revalidates when the subtree asks for it (rv).
initBlazy(s, i, d, rv) ==
  LET items == nativeItems(s)
      s0 == [s EXCEPT !.blazy.items = items,
                      !.blazy.listening = @ \/ (s.blazy.nativeLazy /\ items # <<>>)]
      s1 == Bio(s0, i, [disconnect |-> d, orch |-> TRUE])
      s2 == [s1 EXCEPT !.blazy.init = i]
  IN IF s2.thr \/ ~rv \/ s2.blazy.nativeLazy THEN s2 ELSE revalidate(s2, i, TRUE)

InitBlazy(i, d, rv) ==
  /\ Idle /\ ~bio[i].created
  /\ Commit(initBlazy(Cur, i, d, rv))

\* checkRatio on a window resize, for a subtree that asks for revalidation.
Resize ==
  /\ Idle /\ blazy.init # 0
  /\ Commit(IF blazy.nativeLazy THEN Cur ELSE revalidate(Cur, blazy.init, TRUE))

\* The observer's callback with a batch of entries of its targets; q lists
\* the targets of the intersecting entries in delivery order.
Observing(i, q) ==
  LET S == {q[k] : k \in DOMAIN q}
  IN /\ Idle /\ bio[i].created
     /\ bio[i].targets # {} /\ S \subseteq bio[i].targets
     /\ Commit(observing(Cur, i, q))

\* The callback of an observer the instance no longer refers to.
ObservingOld(i, q) ==
  LET S == {q[k] : k \in DOMAIN q}
  IN /\ Idle
     /\ bio[i].oldTargets # {} /\ S \subseteq bio[i].oldTargets
     /\ Commit(observing(Cur, i, q))

Load(i, elms) ==
  /\ Idle /\ bio[i].created
  /\ Commit(load(Cur, i, elms))

Revalidate(i, force) ==
  /\ Idle /\ bio[i].created
  /\ Commit(revalidate(Cur, i, force))

Disconnect(i, force) ==
  /\ Idle /\ bio[i].created
  /\ Commit(disconnect(Cur, i, force))

Destroy(i, force) ==
  /\ Idle /\ bio[i].created
  /\ Commit(destroy(Cur, i, force))

Reinit(i) ==
  /\ Idle /\ bio[i].created
  /\ Commit(reinit(Cur, i))

\* The timeout set by reevaluate fires: Drupal.blazy.init.load(el).
RetryTimer(e) ==
  /\ Idle /\ timers[e] > 0
  /\ Commit(load([Cur EXCEPT !.timers[e] = @ - 1], blazy.init, Single(e)))

\* The load or error event of a probe.
Settle(e, i, ok) ==
  /\ Idle /\ probes[e][i] > 0
  /\ Commit(onSettle(Cur, i, e, ok))

\* Promise reactions.
Then == micro.stage = "then" /\ Commit(setImageThen(Cur))
Catch == micro.stage = "catch" /\ Commit(setImageCatch(Cur))
Finally == micro.stage = "finally" /\ Commit(setImageFinally(Cur))

\* One loader instance on the page.
Next ==
  \/ \E d \in BOOLEAN : NewBioMedia(1, d)
  \/ \E d \in BOOLEAN, rv \in BOOLEAN : InitBlazy(1, d, rv)
  \/ Resize
  \/ \E S \in SUBSET Elems : \E q \in Orders(S) : Observing(1, q)
  \/ \E S \in SUBSET Elems : \E q \in Orders(S) : ObservingOld(1, q)
  \/ \E a \in LoadArgs : Load(1, a)
  \/ \E f \in BOOLEAN : Revalidate(1, f)
  \/ \E f \in BOOLEAN : Disconnect(1, f)
  \/ \E f \in BOOLEAN : Destroy(1, f)
  \/ Reinit(1)
  \/ \E e \in Elems : RetryTimer(e)
  \/ \E e \in Elems, ok \in BOOLEAN : Settle(e, 1, ok)
  \/ Then
  \/ Catch
  \/ Finally

Spec == Init /\ [][Next]_vars

\* One loader instance and no forced disconnect.
NextAuto ==
  \/ \E d \in BOOLEAN : NewBioMedia(1, d)
  \/ \E d \in BOOLEAN, rv \in BOOLEAN : InitBlazy(1, d, rv)
  \/ Resize
  \/ \E S \in SUBSET Elems : \E q \in Orders(S) : Observing(1, q)
  \/ \E S \in SUBSET Elems : \E q \in Orders(S) : ObservingOld(1, q)
  \/ \E a \in LoadArgs : Load(1, a)
  \/ \E f \in BOOLEAN : Revalidate(1, f)
  \/ Disconnect(1, FALSE)
  \/ Destroy(1, FALSE)
  \/ Reinit(1)
  \/ \E e \in Elems : RetryTimer(e)
  \/ \E e \in Elems, ok \in BOOLEAN : Settle(e, 1, ok)
  \/ Then
  \/ Catch
  \/ Finally

SpecAuto == Init /\ [][NextAuto]_vars

\* Two loaders constructed by collaborators on a page whose second element
\* is already loaded.
InitTwo ==
  /\ dom = Page(ImgShape("XS"), Done(ImgShape(NoAttr)))
  /\ probes = [e \in Elems |-> [i \in Insts |-> 0]]
  /\ micro = NoMicro
  /\ fin = NoFin
  /\ timers = [e \in Elems |-> 0]
  /\ bio = [i \in Insts |-> NoBio]
  /\ glob = [bioTick |-> 0, revTick |-> 0, disconnected |-> FALSE, observed |-> FALSE]
  /\ blazy = NoBlazy(FALSE)
  /\ pure = NoPure

NextTwo ==
  \/ \E i \in Insts, d \in BOOLEAN : NewBioMedia(i, d)
  \/ \E i \in Insts, S \in SUBSET Elems : \E q \in Orders(S) : Observing(i, q)
  \/ \E i \in Insts, S \in SUBSET Elems : \E q \in Orders(S) : ObservingOld(i, q)
  \/ \E i \in Insts, a \in LoadArgs : Load(i, a)
  \/ \E i \in Insts, f \in BOOLEAN : Revalidate(i, f)
  \/ \E i \in Insts, f \in BOOLEAN : Disconnect(i, f)
  \/ \E i \in Insts : Reinit(i)
  \/ \E e \in Elems, i \in Insts, ok \in BOOLEAN : Settle(e, i, ok)
  \/ Then
  \/ Catch
  \/ Finally

SpecTwo == InitTwo /\ [][NextTwo]_vars

\* The orchestrator on a page with a native opt-in image or on a page where
\* no element matches .b-lazy:not(.b-loaded), in a browser with or without
\* native lazy loading; or on a page of two iframes, one without a placeholder
\* src.
NativePages == {Page(NativeShape, ImgShape(NoAttr)),
                Page(Done(ImgShape("XS")), Done(ImgShape(NoAttr))),
                Page(IframeShape(NoAttr), IframeShape("P"))}

InitNative ==
  /\ dom \in NativePages
  /\ probes = [e \in Elems |-> [i \in Insts |-> 0]]
  /\ micro = NoMicro
  /\ fin = NoFin
  /\ timers = [e \in Elems |-> 0]
  /\ bio = [i \in Insts |-> NoBio]
  /\ glob = [bioTick |-> 0, revTick |-> 0, disconnected |-> FALSE, observed |-> FALSE]
  /\ \E nativeLazy \in BOOLEAN : blazy = NoBlazy(nativeLazy)
  /\ pure = NoPure

NextNative ==
  \/ \E d \in BOOLEAN, rv \in BOOLEAN : InitBlazy(1, d, rv)
  \/ Resize
  \/ \E S \in SUBSET Elems : \E q \in Orders(S) : Observing(1, q)
  \/ \E a \in LoadArgs : Load(1, a)
  \/ \E e \in Elems : RetryTimer(e)
  \/ \E e \in Elems, ok \in BOOLEAN : Settle(e, 1, ok)
  \/ Then
  \/ Catch
  \/ Finally

SpecNative == InitNative /\ [][NextNative]_vars

----------------------------------------------------------------------------
\* dBlazy.activeWidth and dBlazy.once.

Undefined == "undefined"
Pending == "pending"
None == "none"

\* Breakpoint datasets: objects whose keys are widths.
Breakpoints == {0, 768, 1200}
Images == {"a.jpg", "b.jpg", "c.jpg"}
Datasets == UNION {[K -> Images] : K \in SUBSET Breakpoints}

\* window.innerWidth, and window.devicePixelRatio in halves (2 is 1, 3 is 1.5).
WindowWidths == {320, 768, 900, 1200, 1600}
PixelRatios2 == {2, 3, 4}

\* Object.keys lists integer keys in ascending order.
RECURSIVE ObjectKeys(_)
ObjectKeys(K) ==
  IF K = {} THEN <<>>
  ELSE LET k == CHOOSE k \in K : \A o \in K : k <= o
       IN <<k>> \o ObjectKeys(K \ {k})

\* Mutant: compares with the window width, whatever mobileFirst is.
activeWidthNoRatio(dataset, mobileFirst, windowWidth, pixelRatio2) ==
  LET keys == ObjectKeys(DOMAIN dataset)
      ww2 == 2 * windowWidth
      mw(w) == IF mobileFirst THEN 2 * w <= ww2 ELSE 2 * w >= ww2
      found == SelectSeq(keys, mw)
      data == IF found = <<>> THEN Undefined
              ELSE dataset[IF mobileFirst THEN found[Len(found)] ELSE found[1]]
  IN IF data # Undefined THEN data
     ELSE IF keys = <<>> THEN Undefined
     ELSE dataset[IF ww2 >= 2 * keys[Len(keys)] THEN keys[Len(keys)] ELSE keys[1]]

\* Mutant: compares with the effective width, whatever mobileFirst is.
activeWidthRatio(dataset, mobileFirst, windowWidth, pixelRatio2) ==
  LET keys == ObjectKeys(DOMAIN dataset)
      ww2 == windowWidth * pixelRatio2
      mw(w) == IF mobileFirst THEN 2 * w <= ww2 ELSE 2 * w >= ww2
      found == SelectSeq(keys, mw)
      data == IF found = <<>> THEN Undefined
              ELSE dataset[IF mobileFirst THEN found[Len(found)] ELSE found[1]]
  IN IF data # Undefined THEN data
     ELSE IF keys = <<>> THEN Undefined
     ELSE dataset[IF ww2 >= 2 * keys[Len(keys)] THEN keys[Len(keys)] ELSE keys[1]]

\* Mutant: always takes the largest key that is not above the width.
activeWidthBelow(dataset, mobileFirst, windowWidth, pixelRatio2) ==
  LET keys == ObjectKeys(DOMAIN dataset)
      ww2 == IF mobileFirst THEN 2 * windowWidth ELSE windowWidth * pixelRatio2
      mw(w) == 2 * w <= ww2
      found == SelectSeq(keys, mw)
      data == IF found = <<>> THEN Undefined ELSE dataset[found[Len(found)]]
  IN IF data # Undefined THEN data
     ELSE IF keys = <<>> THEN Undefined
     ELSE dataset[IF ww2 >= 2 * keys[Len(keys)] THEN keys[Len(keys)] ELSE keys[1]]

\* Widths are compared doubled, the pixel ratio being counted in halves.
activeWidth(dataset, mobileFirst, windowWidth, pixelRatio2) ==
  LET keys == ObjectKeys(DOMAIN dataset)
      ww2 == IF mobileFirst THEN 2 * windowWidth ELSE windowWidth * pixelRatio2
      mw(w) == IF mobileFirst THEN 2 * w <= ww2 ELSE 2 * w >= ww2
      found == SelectSeq(keys, mw)
      data == IF found = <<>> THEN Undefined
              ELSE dataset[IF mobileFirst THEN found[Len(found)] ELSE found[1]]
  IN IF data # Undefined THEN data
     ELSE IF keys = <<>> THEN Undefined
     ELSE dataset[IF ww2 >= 2 * keys[Len(keys)] THEN keys[Len(keys)] ELSE keys[1]]

ActiveWidthCalls ==
  [fn : {"activeWidth"}, dataset : Datasets, mobileFirst : BOOLEAN,
   windowWidth : WindowWidths, pixelRatio2 : PixelRatios2, out : {Pending}]

\* The closure of once(fn): ran, result and fn; runs counts the executions of
\* fn, depth the executions under way, first is what the first call returned,
\* last what the latest later call returned, nested what a call made from
\* inside fn returned.
Results == {Undefined, "r1", "r2"}
OnceNew == [fn |-> "once", ran |-> FALSE, result |-> Undefined, fnNull |-> FALSE,
            runs |-> 0, depth |-> 0, thrown |-> FALSE,
            first |-> None, last |-> None, nested |-> None]

\* proxy up to the call of fn: a cached result is returned at once.
proxyEnter(o, inner) ==
  IF o.ran
  THEN IF inner THEN [o EXCEPT !.nested = o.result] ELSE [o EXCEPT !.last = o.result]
  ELSE [o EXCEPT !.ran = TRUE, !.runs = @ + 1, !.depth = @ + 1]

\* Mutant: the result of fn is returned but not kept.
proxyLeaveForget(o, v) ==
  [o EXCEPT !.fnNull = TRUE, !.depth = @ - 1, !.first = v]

\* proxy after fn returned v.
proxyLeave(o, v) ==
  [o EXCEPT !.result = v, !.fnNull = TRUE, !.depth = @ - 1, !.first = v]

\* fn raised: proxy is left at the call of fn.
proxyThrow(o) == [o EXCEPT !.depth = @ - 1, !.thrown = TRUE]

\* The program state does not change while a utility call is followed.
\* The text of a data-* attribute, as a sequence of JSON tokens: braces, the
\* colon, the string literal "768" and the number 1.
Tokens == {"{", "}", ":", "768", "1"}
Texts == UNION {[1..n -> Tokens] : n \in 0..MaxLen}

\* JavaScript values: false, undefined, a number, a string, or an object
\* with the members m (at most the member 768).
jsFalse == [t |-> "false", m |-> <<>>]
jsNumber == [t |-> "number", m |-> <<>>]
jsString == [t |-> "string", m |-> <<>>]
jsObject(m) == [t |-> "object", m |-> m]
Truthy(v) == v.t \in {"number", "string", "object"}

\* JSON.parse reads one value at position p: ok says whether it did, next is
\* the position after it.
SyntaxError == [ok |-> FALSE, next |-> 0, val |-> jsFalse]
Parsed(v, next) == [ok |-> TRUE, next |-> next, val |-> v]

closeObject(str, r) ==
  IF r.ok /\ r.next <= Len(str) /\ str[r.next] = "}"
  THEN Parsed(jsObject(<<r.val>>), r.next + 1)
  ELSE SyntaxError

RECURSIVE parseValue(_, _)
parseValue(str, p) ==
  IF p > Len(str) THEN SyntaxError
  ELSE IF str[p] = "1" THEN Parsed(jsNumber, p + 1)
  ELSE IF str[p] = "768" THEN Parsed(jsString, p + 1)
  ELSE IF str[p] = "{"
  THEN IF p + 1 <= Len(str) /\ str[p + 1] = "}"
       THEN Parsed(jsObject(<<>>), p + 2)
       ELSE IF p + 2 <= Len(str) /\ str[p + 1] = "768" /\ str[p + 2] = ":"
       THEN closeObject(str, parseValue(str, p + 3))
       ELSE SyntaxError
  ELSE SyntaxError

\* JSON.parse throws unless the text is one value and nothing else.
Throws(r, str) == ~r.ok \/ r.next # Len(str) + 1

\* Mutant: the catch block answers an empty object.
parseEmpty(str) ==
  IF Throws(parseValue(str, 1), str) THEN jsObject(<<>>) ELSE parseValue(str, 1).val

\* dBlazy.parse: try JSON.parse, catch: false.
parse(str) ==
  IF Throws(parseValue(str, 1), str) THEN jsFalse ELSE parseValue(str, 1).val

\* What Object.keys and the index operator see of a parsed value: the member
\* of an object, the three characters of the string, nothing of a number.
DatasetOf(v) ==
  IF v.t = "object" /\ v.m # <<>> THEN [k \in {768} |-> v.m[1].t]
  ELSE IF v.t = "string" THEN [k \in {0, 1, 2} |-> "string"]
  ELSE [k \in {} |-> Undefined]

\* The window of the calls below.
WindowWidth == 900
PixelRatio2 == 2

NoStyle == [backgroundImage |-> NoAttr, paddingBottom |-> NoAttr]

\* dBlazy.updateBg: no parsed value answers .src or .ratio, so the image is
\* url("undefined") and the padding stays.
bgStyle(style, bg) ==
  IF bg # Undefined
  THEN [style EXCEPT !.backgroundImage = "url(\"undefined\")"]
  ELSE style

updateBgWith(style, backgrounds, mobileFirst) ==
  IF Truthy(backgrounds)
  THEN bgStyle(style, activeWidth(DatasetOf(backgrounds), mobileFirst,
                                  WindowWidth, PixelRatio2))
  ELSE style

updateBg(style, str, mobileFirst) == updateBgWith(style, parse(str), mobileFirst)

\* Drupal.blazy.updateFallbackRatio.
updateFallbackRatio(cn) ==
  IF ~cn.hasStyle /\ cn.dataRatio # NoAttr
  THEN [cn EXCEPT !.paddingBottom = cn.dataRatio, !.path = "fallback"]
  ELSE [cn EXCEPT !.path = "fallback"]

\* me.options.dimensions when the subtree options carry it.
OptionsDimensions == [k \in {768} |-> "56.25"]

\* cn.style.paddingBottom = pad + '%'; the browser drops a value that is no
\* length (undefined%, [object Object]%).
padStyle(cn, pad) ==
  IF pad \in {Undefined, "object"} THEN [cn EXCEPT !.path = "dimensions"]
  ELSE [cn EXCEPT !.paddingBottom = pad, !.path = "dimensions"]

\* Drupal.blazy.updateRatio on the first checkRatio (_resizeTick is 0).
updateRatioWith(cn, dimensions, inOptions) ==
  IF Truthy(dimensions)
  THEN padStyle(cn, activeWidth(DatasetOf(dimensions), FALSE, WindowWidth, PixelRatio2))
  ELSE IF inOptions
  THEN padStyle(cn, activeWidth(OptionsDimensions, FALSE, WindowWidth, PixelRatio2))
  ELSE updateFallbackRatio(cn)

updateRatio(cn, str, inOptions) == updateRatioWith(cn, parse(str), inOptions)

\* doBlazy: the options of the subtree, from data-blazy.
optsOr(v) == IF Truthy(v) THEN v ELSE jsObject(<<>>)

doBlazyOpts(str) ==
  IF str = <<>> \/ str = <<"1">> THEN jsObject(<<>>) ELSE optsOr(parse(str))

\* The calls followed: the attribute text and what else the call reads.
Containers == [hasStyle : BOOLEAN, dataRatio : {NoAttr, "75"},
               paddingBottom : {NoAttr}, path : {"none"}]
ParseCalls ==
  [fn : {"updateBg"}, str : Texts, mobileFirst : BOOLEAN, style : {NoStyle},
   out : {Pending}] \cup
  [fn : {"updateRatio"}, str : Texts, inOptions : BOOLEAN, cn : Containers,
   out : {Pending}] \cup
  [fn : {"doBlazy"}, str : Texts, opts : {jsFalse}, out : {Pending}]

\* The browser and the settings initBlazy runs in: IntersectionObserver in
\* window, drupalSettings.blazyIo.enabled, loading in
\* HTMLImageElement.prototype, Blazy in window; native says whether an
\* element matches the native selector.
Capabilities ==
  [fn : {"initBlazy"}, io : BOOLEAN, ioEnabled : BOOLEAN, nativeLazy : BOOLEAN,
   legacy : BOOLEAN, native : BOOLEAN,
   got : {[listening |-> FALSE, init |-> "null", thrown |-> FALSE]},
   out : {Pending}]

isIo(c) == c.ioEnabled /\ c.io

isBlazy(c) == ~isIo(c) /\ c.legacy

\* Drupal.blazy.run: new Blazy(opts) is a ReferenceError when the library
\* was not loaded.
run(c) ==
  IF isIo(c) THEN "BioMedia"
  ELSE IF c.legacy THEN "Blazy"
  ELSE "ReferenceError"

\* initBlazy: the listener of blazy.native, then the loader; an error ends it.
initStrategy(c) ==
  [listening |-> c.nativeLazy /\ c.native,
   init |-> IF run(c) = "ReferenceError" THEN "null" ELSE run(c),
   thrown |-> run(c) = "ReferenceError"]

\* Option records are functions from the keys they define to values; the
\* value names the layer it was written in.
Records(v) ==
  UNION {[K -> {v}] : K \in SUBSET {"selector", "offset", "mobileFirst"}}
NoKeys == [k \in {} |-> "none"]

\* out[key] = arguments[i][key] for the own keys of one argument.
assign(out, src) ==
  [k \in DOMAIN out \cup DOMAIN src |-> IF k \in DOMAIN src THEN src[k] ELSE out[k]]

\* dBlazy.extend (Object.assign): later arguments override earlier ones; the
\* result is the first argument, which is written to.
RECURSIVE extend(_, _)
extend(out, args) ==
  IF args = <<>> THEN out ELSE extend(assign(out, Head(args)), Tail(args))

\* The hard-coded values of Drupal.blazy.globals.
commons == [k \in {"selector"} |-> "hard"]

\* Drupal.blazy.globals: the merge is written into me.blazySettings.
globals(blazySettings, ioSettings) ==
  extend(blazySettings, <<ioSettings, commons>>)

\* initBlazy: opts.mobileFirst = opts.mobileFirst || false, me.options, and
\* me.blazySettings as globals() leaves it.
initOptions(c) ==
  [c EXCEPT !.options = extend(NoKeys, <<globals(c.blazySettings, c.ioSettings),
                                         assign([k \in {"mobileFirst"} |-> "false"],
                                                c.opts)>>),
            !.blazySettings = globals(c.blazySettings, c.ioSettings),
            !.out = "done"]

OptionCalls ==
  [fn : {"options"}, blazySettings : Records("site"), ioSettings : Records("io"),
   opts : Records("sub"), options : {NoKeys}, site : Records("site"),
   out : {Pending}]

\* Drupal.history. Strings are sequences of characters; a number is a record
\* whose nan field tells NaN from the integer n.
Digits == <<"0", "1", "2", "3", "4", "5", "6", "7", "8", "9">>
DigitValue(c) == (CHOOSE d \in DOMAIN Digits : Digits[d] = c) - 1

\* String(n) of a non-negative integer.
RECURSIVE toString(_)
toString(n) ==
  IF n < 10 THEN <<Digits[n + 1]>>
  ELSE Append(toString(n \div 10), Digits[(n % 10) + 1])

\* parseInt(text, 10) of a text without leading blanks or sign: the value of
\* the longest prefix of digits, NaN when there is none.
RECURSIVE parseDigits(_, _, _)
parseDigits(text, acc, any) ==
  IF text = <<>> \/ Head(text) \notin {Digits[d] : d \in DOMAIN Digits}
  THEN [nan |-> ~any, n |-> acc]
  ELSE parseDigits(Tail(text), (acc * 10) + DigitValue(Head(text)), TRUE)

parseInt(text) == parseDigits(text, 0, FALSE)

\* a > b of a number a and a parsed b: false when b is NaN.
gt(a, b) == ~b.nan /\ a > b.n

secondsIn30Days == 2592000

\* new Date().getTime() when the script was loaded: seconds and milliseconds.
NowSeconds == 1800000000
NowMillis == {499, 500}

\* Math.round(new Date().getTime() / 1000) - secondsIn30Days.
thirtyDaysAgo(h) ==
  (NowSeconds + (IF h.millis >= 500 THEN 1 ELSE 0)) - secondsIn30Days

Nodes == {1, 2}
Recent == NowSeconds - 60

\* drupalSettings.history.lastReadTimestamps: missing (embedded is false), or
\* an object with a timestamp for some nodes; 0 is a node never read.
Embeddeds ==
  {[has |-> FALSE, map |-> [n \in {} |-> 0]]} \cup
  {[has |-> TRUE, map |-> m] : m \in UNION {[K -> {0, Recent}] : K \in SUBSET Nodes}}

\* localStorage items of the keys Drupal.history.<uid>.<node>: null or a text.
Item(text) == [set |-> TRUE, text |-> text]
Items == {[set |-> FALSE, text |-> <<>>], Item(<<>>), Item(<<"x">>), Item(toString(Recent - 1)),
          Item(Append(toString(Recent + 1), "x"))}

\* The content timestamps asked about, and the timestamp the server answers.
ContentTimes == {(NowSeconds - secondsIn30Days) + d : d \in {-1, 0, 1}}
                  \cup {Recent - 1, Recent, Recent + 1, Recent + 2}
ServerTimes == {Recent + 2}

\* embeddedLastReadTimestamps && embeddedLastReadTimestamps[nodeID].
embeddedFor(h, nodeID) ==
  h.embedded.has /\ nodeID \in DOMAIN h.embedded.map /\ h.embedded.map[nodeID] # 0

\* parseInt(storage.getItem(key) || 0, 10).
parseStored(item) ==
  parseInt(IF ~item.set \/ item.text = <<>> THEN toString(0) ELSE item.text)

getLastRead(h, nodeID) ==
  IF embeddedFor(h, nodeID)
  THEN parseInt(toString(h.embedded.map[nodeID]))
  ELSE parseStored(h.storage[nodeID])

\* Mutant: the success callback stores the timestamp for every node.
markAsReadAlways(h, nodeID, timestamp) ==
  [h EXCEPT !.storage[nodeID] = Item(toString(timestamp)),
            !.marked = @ \cup {nodeID}]

\* The success callback of markAsRead.
markAsRead(h, nodeID, timestamp) ==
  IF embeddedFor(h, nodeID) THEN [h EXCEPT !.marked = @ \cup {nodeID}]
  ELSE [h EXCEPT !.storage[nodeID] = Item(toString(timestamp)),
                 !.marked = @ \cup {nodeID}]

needsServerCheck(h, nodeID, contentTimestamp) ==
  IF contentTimestamp < thirtyDaysAgo(h) THEN FALSE
  ELSE IF embeddedFor(h, nodeID)
  THEN gt(contentTimestamp, parseInt(toString(h.embedded.map[nodeID])))
  ELSE gt(contentTimestamp, parseStored(h.storage[nodeID]))

HistoryCalls ==
  [fn : {"history"}, millis : NowMillis, embedded : Embeddeds,
   storage : [Nodes -> Items], marked : {{}},
   asked : {[node |-> 0, time |-> 0, got |-> FALSE, lastRead |-> parseInt(<<>>)]},
   out : {Pending}]

Still == UNCHANGED <<dom, probes, micro, fin, timers, bio, glob, blazy>>

ActiveWidth ==
  /\ pure.fn = "activeWidth" /\ pure.out = Pending
  /\ pure' = [pure EXCEPT !.out = activeWidth(pure.dataset, pure.mobileFirst,
                                              pure.windowWidth, pure.pixelRatio2)]
  /\ Still

\* A call of the wrapper from outside fn.
OnceCall ==
  /\ pure.fn = "once" /\ pure.depth = 0
  /\ pure' = proxyEnter(pure, FALSE)
  /\ Still

\* A call of the wrapper made by fn itself.
OnceReenter ==
  /\ pure.fn = "once" /\ pure.depth > 0
  /\ pure' = proxyEnter(pure, TRUE)
  /\ Still

OnceReturn(v) ==
  /\ pure.fn = "once" /\ pure.depth > 0
  /\ pure' = proxyLeave(pure, v)
  /\ Still

OnceThrow ==
  /\ pure.fn = "once" /\ pure.depth > 0
  /\ pure' = proxyThrow(pure)
  /\ Still

UpdateBg ==
  /\ pure.fn = "updateBg" /\ pure.out = Pending
  /\ pure' = [pure EXCEPT !.style = updateBg(pure.style, pure.str, pure.mobileFirst),
                          !.out = "done"]
  /\ Still

UpdateRatio ==
  /\ pure.fn = "updateRatio" /\ pure.out = Pending
  /\ pure' = [pure EXCEPT !.cn = updateRatio(pure.cn, pure.str, pure.inOptions),
                          !.out = "done"]
  /\ Still

DoBlazy ==
  /\ pure.fn = "doBlazy" /\ pure.out = Pending
  /\ pure' = [pure EXCEPT !.opts = doBlazyOpts(pure.str), !.out = "done"]
  /\ Still

InitStrategy ==
  /\ pure.fn = "initBlazy" /\ pure.out = Pending
  /\ pure' = [pure EXCEPT !.got = initStrategy(pure), !.out = "done"]
  /\ Still

\* site keeps the site-wide settings as they were before the call.
InitOptions ==
  /\ pure.fn = "options" /\ pure.out = Pending /\ pure.site = pure.blazySettings
  /\ pure' = initOptions(pure)
  /\ Still

\* A collaborator asks about a node: getLastRead and needsServerCheck.
NeedsServerCheck(nodeID, contentTimestamp) ==
  /\ pure.fn = "history" /\ pure.out = Pending
  /\ pure' = [pure EXCEPT !.asked = [node |-> nodeID, time |-> contentTimestamp,
                                     got |-> needsServerCheck(pure, nodeID, contentTimestamp),
                                     lastRead |-> getLastRead(pure, nodeID)],
                          !.out = "done"]
  /\ Still

\* The request of markAsRead(nodeID) succeeds.
MarkAsRead(nodeID, timestamp) ==
  /\ pure.fn = "history" /\ nodeID \notin pure.marked
  /\ pure' = markAsRead(pure, nodeID, timestamp)
  /\ Still

InitPure ==
  /\ dom = Page(ImgShape("XS"), BgShape)
  /\ probes = [e \in Elems |-> [i \in Insts |-> 0]]
  /\ micro = NoMicro
  /\ fin = NoFin
  /\ timers = [e \in Elems |-> 0]
  /\ bio = [i \in Insts |-> NoBio]
  /\ glob = [bioTick |-> 0, revTick |-> 0, disconnected |-> FALSE, observed |-> FALSE]
  /\ blazy = NoBlazy(FALSE)
  /\ pure \in ActiveWidthCalls \cup {OnceNew} \cup ParseCalls \cup Capabilities
              \cup {c \in OptionCalls : c.site = c.blazySettings}
              \cup HistoryCalls

NextPure ==
  \/ ActiveWidth
  \/ OnceCall
  \/ OnceReenter
  \/ \E v \in Results : OnceReturn(v)
  \/ OnceThrow
  \/ UpdateBg
  \/ UpdateRatio
  \/ DoBlazy
  \/ InitStrategy
  \/ InitOptions
  \/ \E n \in Nodes, t \in ContentTimes : NeedsServerCheck(n, t)
  \/ \E n \in Nodes, t \in ServerTimes : MarkAsRead(n, t)

SpecPure == InitPure /\ [][NextPure]_vars

----------------------------------------------------------------------------
\* Properties.

TotalProbes(e) == Sum(probes[e], Insts)
Hit(e) == dom[e].attrs["data-bio-hit"] # NoAttr
HasClass(e, c) == c \in dom[e].classes
PlainImg(e) == dom[e].tag = "img" /\ ~dom[e].inPicture

\* C1: at most one preload per element is in flight, and only while the
\* element carries the hit marker; while a hit-marked element has a preload
\* in flight no step starts another preload for it, and the element's
\* attributes and classes change only in the step that settles the preload.
C1_OnePreloadInFlight ==
  /\ [](\A e \in Elems : TotalProbes(e) <= 1 /\ (TotalProbes(e) = 1 => Hit(e)))
  /\ [][\A e \in Elems : Hit(e) /\ TotalProbes(e) = 1 =>
          /\ \A i \in Insts : probes'[e][i] <= probes[e][i]
          /\ probes'[e] = probes[e] => dom'[e] = dom[e]]_vars

\* The hook ran twice for an element whose first preload is still in flight.
C1_Witness ==
  \E e \in Elems : /\ TotalProbes(e) = 1
                   /\ bio[1].counted >= 1
                   /\ \A o \in Elems \ {e} : ~Hit(o) /\ ~HasClass(o, "b-loaded")

\* C2: on an instance with a live observer, disconnect() without force
\* changes nothing while erCounted > 0, and disconnect(true) always releases
\* the observer (no target left, count 0, elms null) and sets the
\* disconnected flag.
C2_DisconnectRefusedOrForced ==
  [][\A i \in Insts : bio[i].created /\ bio[i].observer = LiveObserver =>
       /\ bio[i].erCounted > 0 /\ Disconnect(i, FALSE) =>
            UNCHANGED <<dom, probes, micro, timers, bio, glob, blazy>>
       /\ Disconnect(i, TRUE) =>
            /\ bio'[i].targets = {} /\ bio'[i].count = 0
            /\ bio'[i].elms = NullElms /\ glob'.disconnected]_vars

\* An instance without auto-disconnect is disconnected while it counts errors.
C2_Witness ==
  \E i \in Insts : /\ bio[i].created /\ ~bio[i].disconnect
                   /\ bio[i].observer = LiveObserver
                   /\ bio[i].erCounted > 0
                   /\ glob.disconnected /\ bio[i].elms = NullElms

\* C3: counted never decreases in any step, and a load() call or an
\* intersection batch that passes an element to intersecting() strictly
\* increases it.
C3_CountedMonotonic ==
  /\ [][\A i \in Insts : bio'[i].counted >= bio[i].counted]_vars
  /\ [](\A i \in Insts : bio[i].created /\ micro = NoMicro =>
          /\ \A a \in LoadArgs :
               (\E k \in DOMAIN a.els : ~HasClass(a.els[k], "b-loaded")) =>
                 load(Cur, i, a).bio[i].counted > bio[i].counted
          /\ \A S \in SUBSET Elems : \A q \in Orders(S) :
               (~glob.disconnected /\ \E k \in DOMAIN q : ~HasClass(q[k], "b-loaded")) =>
                 observing(Cur, i, q).bio[i].counted > bio[i].counted)

\* A destroyed instance that processed elements twice.
C3_Witness ==
  \E i \in Insts : bio[i].counted >= 1 /\ bio[i].observer = NullObserver
                   /\ bio[i].elms = NullElms

\* C4: a settled preload runs its success or error reaction and then
\* dispatches bio.finally exactly once: the event is dispatched only by the
\* reaction that follows the one which added the class and ran the callback,
\* and never for an element whose preload is pending.
C4_OneCompletionEvent ==
  /\ [](micro.stage = "finally" => micro.classed /\ micro.called)
  /\ [](fin.el # 0 => TotalProbes(fin.el) = 0)
  /\ [][/\ micro.stage \in {"then", "catch"} =>
             micro'.stage = "finally" /\ micro'.el = micro.el /\ fin' = NoFin
        /\ micro.stage = "finally" =>
             fin' = [el |-> micro.el, status |-> micro.status] /\ micro' = NoMicro
        /\ micro.stage = "none" => fin' = NoFin]_vars

\* The completion event of a failed preload has just been dispatched.
C4_Witness == fin.el # 0 /\ fin.status = Er

\* C5: when bio.finally fires for an image whose probe failed, the element
\* carries the error class, src and srcset are set from the data attributes,
\* the data attributes are still there, and the hit marker is gone so that
\* the loading hook starts a new preload.
C5_FailedImageAtCompletion ==
  fin.el # 0 /\ fin.status = Er /\ PlainImg(fin.el) =>
    LET at == dom[fin.el].attrs
    IN /\ HasClass(fin.el, "b-error")
       /\ at["data-src"] = "X" /\ at["src"] = "X"
       /\ at["srcset"] = at["data-srcset"]
       /\ ~Hit(fin.el)
       /\ \A i \in Insts : bio[i].created =>
            lazyLoad(Cur, i, fin.el).probes[fin.el][i] = 1

\* C6: an image (not a picture child) that carries the success class has
\* src equal to the former data-src value X and neither data-src nor
\* data-srcset, from the success reaction on.
C6_RoundTrip ==
  \A e \in Elems : PlainImg(e) /\ HasClass(e, "b-loaded") =>
    /\ dom[e].attrs["src"] = "X"
    /\ dom[e].attrs["data-src"] = NoAttr
    /\ dom[e].attrs["data-srcset"] = NoAttr

\* The success path of an image with data-src and data-srcset has completed.
C6_Witness ==
  /\ fin.el # 0 /\ fin.status = Ok /\ PlainImg(fin.el)
  /\ dom[fin.el].attrs["srcset"] = "XS"
  /\ HasClass(fin.el, "b-loaded")

\* C7: every preload is started by an external trigger, that is by a step
\* that is a load() call of a collaborator or an intersection batch; no
\* other step (a timer) starts one.
C7_NoAutomaticRetry ==
  [][(\E e \in Elems : TotalProbes(e)' > TotalProbes(e)) =>
       \/ \E i \in Insts, a \in LoadArgs : Load(i, a)
       \/ \E i \in Insts, S \in SUBSET Elems : \E q \in Orders(S) :
            Observing(i, q) \/ ObservingOld(i, q)]_vars

\* An image or background is in the error state when the attributes of a
\* settled probe were applied to it and it does not carry the success class.
InError(e) ==
  /\ ~HasClass(e, "b-loaded")
  /\ IF isBgEl(dom[e]) THEN dom[e].bgImage # NoAttr
     ELSE PlainImg(e) /\ dom[e].attrs["src"] = "X"

\* C8: between tasks, erCounted of the instance equals the number of
\* elements in the error state.
C8_ErCountedCountsErrors ==
  micro = NoMicro /\ bio[1].created =>
    bio[1].erCounted = Cardinality({e \in Elems : InError(e)})

\* C9: without forced disconnects, an instance with erCounted > 0 is not
\* disconnected.
C9_ErrorsKeepObserver ==
  \A i \in Insts : bio[i].created /\ bio[i].erCounted > 0 => ~glob.disconnected

\* An instance whose observer was released by its last disconnect.
Released(i) == bio[i].created /\ bio[i].elms = NullElms /\ bio[i].targets = {}

NoFailure(i) ==
  /\ ~bio[i].orch /\ bio[i].erCounted = 0 /\ micro.status # Er
  /\ \A e \in Elems : ~HasClass(e, "b-error")

\* Every element of the page went through the loading hook of the instance
\* and none is registered with an observer of the instance.
AllProcessed(i) ==
  /\ bio[i].created /\ bio[i].observer = LiveObserver
  /\ bio[i].targets = {} /\ bio[i].oldTargets = {}
  /\ \A e \in Elems : Hit(e)

\* C11: between tasks, an instance with auto-disconnect and no load failure
\* whose targeted elements have all been processed, by batches, by load()
\* calls or by both, is disconnected.
C11_AllProcessedDisconnects ==
  \A i \in Insts :
    micro = NoMicro /\ bio[i].disconnect /\ NoFailure(i) /\ AllProcessed(i) =>
      glob.disconnected

\* The elements of a load() argument or of a batch without the success class.
Unloaded(q) == {k \in DOMAIN q : ~HasClass(q[k], "b-loaded")}

\* C12 as stated: load() of a single element or of a collection runs
\* intersecting() once for each element without the success class, also on
\* a disconnected instance, and leaves the instance disconnected.
C12_LoadLeavesDisconnected ==
  \A i \in Insts : micro = NoMicro /\ bio[i].created /\ bio[i].observer = LiveObserver =>
    \A a \in LoadArgs :
      LET r == load(Cur, i, a)
      IN /\ r.bio[i].counted = bio[i].counted + Cardinality(Unloaded(a.els))
         /\ r.glob.disconnected

\* C12 amended: load() of a single element or of a collection runs
\* intersecting() once for each element without the success class, also on
\* a disconnected instance; it ends with disconnect() without force when
\* the instance is not disconnected, so that on return the instance is
\* disconnected exactly when it was before or when auto-disconnect is
\* configured, erCounted is 0 and _bioTick is 0 or count equals counted.
C12_LoadCallsDisconnect ==
  \A i \in Insts : micro = NoMicro /\ bio[i].created /\ bio[i].observer = LiveObserver =>
    \A a \in LoadArgs :
      LET r == load(Cur, i, a)
          me == r.bio[i]
      IN /\ me.counted = bio[i].counted + Cardinality(Unloaded(a.els))
         /\ r.glob.disconnected <=>
              \/ glob.disconnected
              \/ /\ me.disconnect /\ me.erCounted = 0
                 /\ r.glob.bioTick = 0 \/ bio[i].count = me.counted

\* A load() call on a disconnected instance started a new preload for an
\* element whose probe had failed.
C12_Witness ==
  /\ glob.disconnected /\ Released(1) /\ ~bio[1].orch
  /\ \E e \in Elems : HasClass(e, "b-error") /\ Hit(e) /\ probes[e][1] = 1

\* C13 as stated: disconnect() without force on an instance with erCounted 0
\* releases the observer, sets the disconnected flag and resets count,
\* whatever the auto-disconnect option and the elements still pending.
C13_DisconnectAlwaysReleases ==
  \A i \in Insts :
    micro = NoMicro /\ bio[i].created /\ bio[i].observer = LiveObserver
      /\ bio[i].erCounted = 0 =>
        LET r == disconnect(Cur, i, FALSE)
        IN /\ r.glob.disconnected
           /\ r.bio[i].targets = {} /\ r.bio[i].count = 0 /\ r.bio[i].elms = NullElms

\* C13 amended: disconnect() without force on an instance with erCounted 0
\* releases the observer, sets the disconnected flag, resets count to 0 and
\* nulls elms (counted keeps its value) when auto-disconnect is configured
\* and _bioTick is 0 or count equals counted, whatever the number of
\* elements still pending; otherwise it changes nothing.
C13_DisconnectReleasesWhenConfigured ==
  \A i \in Insts :
    micro = NoMicro /\ bio[i].created /\ bio[i].observer = LiveObserver
      /\ bio[i].erCounted = 0 =>
        LET r == disconnect(Cur, i, FALSE)
        IN IF bio[i].disconnect /\ (glob.bioTick = 0 \/ bio[i].count = bio[i].counted)
           THEN /\ r.glob.disconnected
                /\ r.bio[i].targets = {} /\ r.bio[i].count = 0
                /\ r.bio[i].elms = NullElms
                /\ r.bio[i].counted = bio[i].counted
                /\ r.dom = dom /\ r.probes = probes
           ELSE r = Cur

\* An instance was released without force while an element of the page had
\* never been processed.
C13_Witness ==
  /\ glob.disconnected /\ Released(1) /\ bio[1].disconnect /\ bio[1].erCounted = 0
  /\ \E e \in Elems : ~Hit(e) /\ ~HasClass(e, "b-loaded")

\* C14: an element with the success class is never passed to intersecting():
\* load(), an intersection batch and the timer of reevaluate() count only the
\* elements without it and leave a loaded element as it is; and a batch of a
\* connected instance leaves no element it processed among the targets of
\* the observer.
C14_OneShot ==
  \A i \in Insts : micro = NoMicro /\ bio[i].created =>
    /\ \A a \in LoadArgs :
         LET r == load(Cur, i, a)
         IN /\ r.bio[i].counted <= bio[i].counted + Cardinality(Unloaded(a.els))
            /\ \A k \in DOMAIN a.els \ Unloaded(a.els) :
                 r.dom[a.els[k]] = dom[a.els[k]] /\ r.probes[a.els[k]] = probes[a.els[k]]
    /\ \A S \in SUBSET Elems : \A q \in Orders(S) :
         LET r == observing(Cur, i, q)
         IN /\ r.bio[i].counted <= bio[i].counted + Cardinality(Unloaded(q))
            /\ \A k \in DOMAIN q \ Unloaded(q) :
                 r.dom[q[k]] = dom[q[k]] /\ r.probes[q[k]] = probes[q[k]]
            /\ ~glob.disconnected /\ bio[i].observer = LiveObserver =>
                 \A k \in Unloaded(q) : q[k] \notin r.bio[i].targets
    /\ \A e \in Elems :
         blazy.init = i /\ timers[e] > 0 /\ HasClass(e, "b-loaded") =>
           LET r == load([Cur EXCEPT !.timers[e] = @ - 1], i, Single(e))
           IN r.bio[i].counted = bio[i].counted /\ r.dom = dom /\ r.probes = probes

\* The timer of reevaluate() is pending for an element that was loaded in
\* the meantime.
C14_Witness ==
  \E e \in Elems : HasClass(e, "b-loaded") /\ timers[e] > 0 /\ blazy.init # 0

\* The result of a finished activeWidth call on a dataset with entries.
Answered(mobileFirst) ==
  /\ pure.fn = "activeWidth" /\ pure.out # Pending
  /\ pure.mobileFirst = mobileFirst /\ DOMAIN pure.dataset # {}

Smallest(K) == CHOOSE k \in K : \A o \in K : k <= o
Largest(K) == CHOOSE k \in K : \A o \in K : k >= o

\* C15: desktop-first, activeWidth returns the entry of the smallest key that
\* is at least the effective width (window width times pixel ratio), and the
\* entry of the largest key when no key is.
C15_DesktopFirst ==
  Answered(FALSE) =>
    LET D == pure.dataset
        Q == {k \in DOMAIN D : 2 * k >= pure.windowWidth * pure.pixelRatio2}
    IN pure.out = IF Q # {} THEN D[Smallest(Q)] ELSE D[Largest(DOMAIN D)]

\* The pixel ratio decides: the window width alone selects another entry.
C15_Witness ==
  /\ Answered(FALSE) /\ pure.pixelRatio2 = 3 /\ pure.windowWidth = 768
  /\ pure.dataset = (0 :> "a.jpg" @@ 768 :> "b.jpg" @@ 1200 :> "c.jpg")
  /\ pure.out = "c.jpg"

\* C16: mobile-first, activeWidth compares the keys with the window width
\* alone and returns the entry of the largest key that is at most the window
\* width, and the entry of the smallest key when no key is.
C16_MobileFirst ==
  Answered(TRUE) =>
    LET D == pure.dataset
        Q == {k \in DOMAIN D : k <= pure.windowWidth}
    IN pure.out = IF Q # {} THEN D[Largest(Q)] ELSE D[Smallest(DOMAIN D)]

\* The effective width (1800) would select the entry of 1200.
C16_Witness ==
  /\ Answered(TRUE) /\ pure.pixelRatio2 = 4 /\ pure.windowWidth = 900
  /\ pure.dataset = (1200 :> "c.jpg" @@ 768 :> "b.jpg")
  /\ pure.out = "b.jpg"

\* The call of the scenario: three breakpoints, desktop-first, window width
\* 900, pixel ratio 1.
Scenario17 ==
  /\ pure.fn = "activeWidth" /\ pure.out # Pending /\ ~pure.mobileFirst
  /\ pure.dataset = (0 :> "a.jpg" @@ 768 :> "b.jpg" @@ 1200 :> "c.jpg")
  /\ pure.windowWidth = 900 /\ pure.pixelRatio2 = 2

\* C17 as stated: the scenario returns "b.jpg".
C17_ScenarioReturnsB == Scenario17 => pure.out = "b.jpg"

\* C17 amended: the scenario returns "c.jpg", the entry of 1200, the smallest
\* key that is at least 900.
C17_ScenarioReturnsC == Scenario17 => pure.out = "c.jpg"

C17_Witness == Scenario17 /\ pure.out \in Images

\* C18: fn is executed at most once, also when it calls the wrapper itself,
\* and every call made after the first call returned yields what the first
\* call returned, without executing fn.
C18_OnceRunsOnce ==
  /\ [](pure.fn = "once" =>
          /\ pure.runs <= 1
          /\ pure.first # None /\ pure.last # None => pure.last = pure.first)
  /\ [][pure.fn = "once" /\ pure.first # None => pure'.runs = pure.runs]_vars

\* fn called the wrapper while it ran, returned r1, and a later call
\* returned r1 too.
C18_Witness ==
  /\ pure.fn = "once" /\ pure.runs = 1 /\ pure.nested = Undefined
  /\ pure.first = "r1" /\ pure.last = "r1"

\* C19: the blazy.native event is dispatched at most once on a page.
C19_NativeEventOnce == blazy.natives <= 1

\* An img inside a picture after the loading hook: every source has its
\* srcset from data-srcset, the img its src from data-src, the data
\* attributes are gone and the img carries the hit marker and the success
\* class.
PictureLoaded(el) ==
  /\ \A k \in DOMAIN el.kids :
       el.kids[k]["srcset"] = "SS" /\ el.kids[k]["data-srcset"] = NoAttr
  /\ el.attrs["src"] = "X" /\ el.attrs["data-src"] = NoAttr
  /\ el.attrs["data-bio-hit"] # NoAttr
  /\ "b-loaded" \in el.classes

\* C20: one call of the loading hook on an img inside a picture sets the
\* srcset of every source from its data-srcset and removes the data
\* attribute, promotes data-src of the img to src and adds the success class
\* in that call; no preload is ever started for the element.
C20_PictureSynchronous ==
  \A e \in Elems : dom[e].inPicture =>
    /\ TotalProbes(e) = 0
    /\ Hit(e) => PictureLoaded(dom[e])
    /\ \A i \in Insts : bio[i].created /\ ~Hit(e) =>
         LET r == lazyLoad(Cur, i, e)
         IN PictureLoaded(r.dom[e]) /\ r.probes = probes /\ r.micro = micro

\* The picture was processed by a batch that left the other element alone.
C20_Witness ==
  \E e \in Elems : /\ dom[e].inPicture /\ Len(dom[e].kids) = 2
                   /\ PictureLoaded(dom[e]) /\ bio[1].counted = 0
                   /\ \A o \in Elems \ {e} : ~Hit(o)

----------------------------------------------------------------------------
\* C21: on a page where no element matches the target selector, initBlazy
\* binds no listener of blazy.native and leaves no connected observer
\* instance that observes nothing.
NoMatch == \A e \in Elems : isLoaded(Cur, e)

Idling(s, i) ==
  /\ s.bio[i].observer = LiveObserver
  /\ ~s.glob.disconnected
  /\ s.bio[i].targets = {}

C21_EmptyPageLeavesNothing ==
  (NoMatch /\ blazy.init = 0 /\ ~bio[1].created) =>
    \A d \in BOOLEAN, rv \in BOOLEAN :
      /\ ~initBlazy(Cur, 1, d, rv).blazy.listening
      /\ ~Idling(initBlazy(Cur, 1, d, rv), 1)

----------------------------------------------------------------------------
\* C22: counted is the number of elements the instance has processed through
\* intersecting: 0 on a new instance, one more after each element.
C22_CountedCountsProcessed ==
  \A i \in Insts :
    /\ ~bio[i].created =>
         \A d \in BOOLEAN :
           Bio(Cur, i, [disconnect |-> d, orch |-> FALSE]).bio[i].counted = 0
    /\ bio[i].created =>
         \A e \in Elems :
           intersecting(Cur, i, e).bio[i].counted = bio[i].counted + 1

----------------------------------------------------------------------------
\* C23: with two instances on the page, forcing one to disconnect does not
\* make the other ignore its intersection batches, and constructing one does
\* not mark a disconnected other as connected.
Batches(i) == UNION {Orders(S) : S \in SUBSET bio[i].targets \ {{}}}

C23_InstanceIsolation ==
  \A i, j \in Insts :
    (i # j /\ bio[i].created) =>
      /\ (bio[j].created /\ ~glob.disconnected) =>
           \A q \in Batches(j) :
             observing(disconnect(Cur, i, TRUE), j, q) # disconnect(Cur, i, TRUE)
      /\ (~bio[j].created /\ glob.disconnected) =>
           \A d \in BOOLEAN :
             Bio(Cur, j, [disconnect |-> d, orch |-> FALSE]).glob.disconnected

----------------------------------------------------------------------------
\* C24: a disconnect without force does not release the observer of an
\* instance while an element that is not loaded was never processed (no
\* disconnect is forced in this specification).
Unprocessed(e) ==
  /\ ~isLoaded(Cur, e)
  /\ ~Hit(e)
  /\ ~HasClass(e, "b-error")
  /\ TotalProbes(e) = 0
  /\ timers[e] = 0

C24_NoEarlyRelease ==
  glob.disconnected => \A e \in Elems : ~Unprocessed(e)

----------------------------------------------------------------------------
\* C25: revalidate takes effect only when it is forced or counted lags
\* behind count, and only while the budget lasts; a refused revalidate
\* changes nothing; the revalidations that took effect never outnumber the
\* elements processed.
Lagging(i) == bio[i].counted < bio[i].count

C25_RevalidateGuard ==
  \A i \in Insts : bio[i].created =>
    /\ \A force \in BOOLEAN :
         IF (force \/ Lagging(i)) /\ glob.revTick < bio[i].counted
         THEN revalidate(Cur, i, force) # Cur
         ELSE revalidate(Cur, i, force) = Cur
    /\ glob.revTick <= bio[i].counted + 1

----------------------------------------------------------------------------
----------------------------------------------------------------------------
\* C27: erCounted is never negative; a reported failure adds one, a reported
\* success takes one off when it is positive and leaves zero otherwise;
\* disconnect, forced disconnect, reinit and revalidate leave it alone.
C27_ErCountedBookkeeping ==
  \A i \in Insts : bio[i].created =>
    /\ bio[i].erCounted >= 0
    /\ \A e \in Elems :
         /\ loaded(Cur, i, e, Er).bio[i].erCounted = bio[i].erCounted + 1
         /\ loaded(Cur, i, e, Ok).bio[i].erCounted =
              IF bio[i].erCounted > 0 THEN bio[i].erCounted - 1 ELSE 0
    /\ \A force \in BOOLEAN :
         /\ disconnect(Cur, i, force).bio[i].erCounted = bio[i].erCounted
         /\ revalidate(Cur, i, force).bio[i].erCounted = bio[i].erCounted
    /\ reinit(Cur, i).bio[i].erCounted = bio[i].erCounted

\* A failure was counted and a later success took it off again.
C27_Witness ==
  /\ bio[1].created /\ bio[1].erCounted = 0
  /\ \E e1, e2 \in Elems : HasClass(e1, "b-error") /\ HasClass(e2, "b-loaded")

----------------------------------------------------------------------------
\* C28: in a browser with native lazy loading, the elements that declare the
\* loading attribute are marked loaded by initBlazy itself, and none of them
\* is ever processed by intersecting or preloaded through a probe.
NativeOptIn(e) == dom[e].attrs["loading"] # NoAttr

C28_NativeBypassesEngine ==
  blazy.nativeLazy =>
    \A e \in Elems :
      NativeOptIn(e) => /\ blazy.init # 0 => isLoaded(Cur, e)
                        /\ ~Hit(e)
                        /\ TotalProbes(e) = 0

----------------------------------------------------------------------------
\* The texts JSON accepts, of at most n tokens: a number, a string, the empty
\* object, or an object with one member.
RECURSIVE JsonTexts(_)
JsonTexts(n) ==
  IF n < 1 THEN {}
  ELSE {<<"1">>, <<"768">>}
       \cup (IF n >= 2 THEN {<<"{", "}">>} ELSE {})
       \cup {<<"{", "768", ":">> \o v \o <<"}">> : v \in JsonTexts(n - 4)}

Malformed(str) == str \notin JsonTexts(MaxLen)

ParseDone == pure.fn \in {"updateBg", "updateRatio", "doBlazy"} /\ pure.out = "done"

\* C29 as stated: for a malformed attribute text parse answers false,
\* updateBg leaves the style alone, updateRatio takes the data-ratio path and
\* doBlazy starts from empty options.
C29_MalformedIsAbsent ==
  (ParseDone /\ Malformed(pure.str)) =>
    /\ parse(pure.str) = jsFalse
    /\ pure.fn = "updateBg" => pure.style = NoStyle
    /\ pure.fn = "updateRatio" => pure.cn.path = "fallback"
    /\ pure.fn = "doBlazy" => pure.opts = jsObject(<<>>)

\* C29 amended: updateRatio takes the dimensions of the subtree options when
\* they carry them, and the data-ratio path only otherwise.
C29_MalformedFallsBackToOptions ==
  (ParseDone /\ Malformed(pure.str)) =>
    /\ parse(pure.str) = jsFalse
    /\ pure.fn = "updateBg" => pure.style = NoStyle
    /\ pure.fn = "updateRatio" =>
         IF pure.inOptions
         THEN pure.cn.path = "dimensions" /\ pure.cn.paddingBottom = "56.25"
         ELSE /\ pure.cn.path = "fallback"
              /\ pure.cn.paddingBottom =
                   IF ~pure.cn.hasStyle THEN pure.cn.dataRatio ELSE NoAttr
    /\ pure.fn = "doBlazy" => pure.opts = jsObject(<<>>)

\* An object text without its closing brace, with dimensions in the options.
C29_Witness ==
  /\ ParseDone /\ pure.fn = "updateRatio"
  /\ pure.str = <<"{", "768", ":", "1">>
  /\ pure.inOptions /\ pure.cn.paddingBottom = "56.25"

----------------------------------------------------------------------------
\* C30: whatever the browser offers and the settings say, initBlazy ends
\* without an error and with a loader: BioMedia when IntersectionObserver is
\* there and enabled, the fallback otherwise.
C30_StrategyNeverFails ==
  (pure.fn = "initBlazy" /\ pure.out = "done") =>
    /\ ~pure.got.thrown
    /\ pure.got.init = IF pure.io /\ pure.ioEnabled THEN "BioMedia" ELSE "Blazy"

----------------------------------------------------------------------------
\* C31: in the options of initBlazy every key has the value of the subtree
\* options when they define it, else of the site-wide settings (blazyIo over
\* blazy) when they define it, else the hard-coded value; the site-wide
\* settings are as they were.
Layered(c, k) ==
  IF k \in DOMAIN c.opts THEN c.opts[k]
  ELSE IF k \in DOMAIN c.ioSettings THEN c.ioSettings[k]
  ELSE IF k \in DOMAIN c.site THEN c.site[k]
  ELSE commons[k]

C31_LayeredOptions ==
  (pure.fn = "options" /\ pure.out = "done") =>
    /\ \A k \in (DOMAIN pure.opts \cup DOMAIN pure.ioSettings
                   \cup DOMAIN pure.site \cup DOMAIN commons) :
         k \in DOMAIN pure.options /\ pure.options[k] = Layered(pure, k)
    /\ pure.blazySettings = pure.site

----------------------------------------------------------------------------
\* C32: an element that carries the hit marker carries the success class or
\* has a preload in flight (a probe that has not settled, or a settled probe
\* whose reaction has not run yet).
InFlight(e) ==
  \/ TotalProbes(e) > 0
  \/ micro.el = e /\ micro.stage \in {"then", "catch"}

C32_HitMeansDispatched ==
  \A e \in Elems : Hit(e) => HasClass(e, "b-loaded") \/ InFlight(e)

----------------------------------------------------------------------------
\* C33: no element carries both the success class and the error class.
C33_OneOutcomeClass ==
  \A e \in Elems : ~(HasClass(e, "b-loaded") /\ HasClass(e, "b-error"))

----------------------------------------------------------------------------
\* C34: after destroy() no later load(), revalidate(), late intersection
\* batch or retry of the orchestrator on the instance uses the released
\* (null) observer: each of them completes without error.
Destroyed(i) == bio[i].created /\ bio[i].observer = NullObserver

LateBatches(i) == UNION {Orders(S) : S \in SUBSET bio[i].oldTargets} \ {<<>>}

C34_DestroyedIsInert ==
  \A i \in Insts : Idle /\ Destroyed(i) =>
    /\ \A a \in LoadArgs : ~load(Cur, i, a).thr
    /\ \A f \in BOOLEAN : ~revalidate(Cur, i, f).thr
    /\ \A q \in LateBatches(i) : ~observing(Cur, i, q).thr
    /\ \A e \in Elems :
         timers[e] > 0 /\ blazy.init = i =>
           ~load([Cur EXCEPT !.timers[e] = @ - 1], i, Single(e)).thr

----------------------------------------------------------------------------
\* The last read timestamp as described: the embedded one when the node has
\* one by the test has(h, n), else the stored value, else 0.
LastRead(h, n, has(_, _)) ==
  IF has(h, n) THEN [nan |-> FALSE, n |-> h.embedded.map[n]]
  ELSE IF h.storage[n].set /\ h.storage[n].text # <<>> THEN parseInt(h.storage[n].text)
  ELSE [nan |-> FALSE, n |-> 0]

\* The step is a needsServerCheck that answers as described, or a markAsRead
\* that leaves the stored value of every node with an embedded timestamp.
Tracked(has(_, _)) ==
  pure.fn = "history" =>
    /\ pure'.asked # pure.asked =>
         /\ pure'.asked.lastRead = LastRead(pure, pure'.asked.node, has)
         /\ pure'.asked.got =
              (/\ pure'.asked.time >= thirtyDaysAgo(pure)
               /\ gt(pure'.asked.time, pure'.asked.lastRead))
    /\ \A n \in Nodes : has(pure, n) => pure'.storage[n] = pure.storage[n]

Embedded(h, n) == h.embedded.has /\ n \in DOMAIN h.embedded.map

\* C35 as stated: needsServerCheck is false for content older than thirty
\* days and otherwise true exactly when the content timestamp is greater than
\* getLastRead (the embedded timestamp when one exists for the node, else the
\* stored value, else 0); a successful markAsRead never overwrites the stored
\* value of a node that has an embedded timestamp.
C35_HistoryTrackerAnyEmbedded == [][Tracked(Embedded)]_vars

\* C35: the same, where a node has an embedded timestamp when a non-zero one
\* is embedded for it (an embedded 0 counts as none).
C35_HistoryTracker == [][Tracked(embeddedFor)]_vars

\* A node with an embedded 0 was asked about and answered from the stored
\* value, and both nodes were marked read: one with a non-zero embedded
\* timestamp, one without.
C35_Witness ==
  /\ pure.fn = "history" /\ pure.out = "done"
  /\ Embedded(pure, pure.asked.node) /\ ~embeddedFor(pure, pure.asked.node)
  /\ pure.asked.got /\ pure.asked.lastRead.n = Recent - 1
  /\ pure.marked = Nodes
  /\ \E n \in Nodes : embeddedFor(pure, n) /\ pure.storage[n] = Item(<<"x">>)
  /\ \E n \in Nodes : ~embeddedFor(pure, n) /\ pure.storage[n] = Item(toString(Recent + 2))

====
